---- MODULE Spec2Model ----
(***************************************************************************)
(* s3lite.Client: the response check, create_bucket, upload_object (the    *)
(* single-shot path and the multipart engine with its semaphore-gated part *)
(* tasks) and download_object, run by one caller on one asyncio event loop *)
(* against an S3-compatible backend.                                       *)
(***************************************************************************)
EXTENDS Integers, Sequences, FiniteSets, TLC

\* ------------------------------------------------------------- bounds
\* Longest stream uploaded (bytes).
MaxLen == 4
\* Largest config.multipart_threshold tried (part size, bytes).
MaxThreshold == 2
\* Largest config.max_concurrency tried.
MaxConcurrency == 2
\* Largest offset / limit passed to download_object.
MaxOffset == 2
MaxLimit == 2

\* ------------------------------------------------------------- values
\* The ignore-set left empty.
IGNORED_ERRORS_Empty == {}

IGNORED_ERRORS == {"BucketAlreadyOwnedByYou"}

\* HTTP status from which _check_error treats a response as a failure.
ErrorStatus == 400

Min(a, b) == IF a <= b THEN a ELSE b
Max(a, b) == IF a >= b THEN a ELSE b

\* A stream of length n; byte i carries the label i, so that any loss,
\* duplication or reordering of bytes is visible.
Stream(n) == [i \in 1..n |-> i]

\* Python's s[a:b] for 0 <= a, 0 <= b.
Slice(s, a, b) == SubSeq(s, a + 1, Min(b, Len(s)))

NoException == [type |-> "None", code |-> ""]
S3Exception(code) == [type |-> "S3Exception", code |-> code]
PyError(type) == [type |-> type, code |-> ""]

\* What the transport hands back for one request: a transport failure
\* (net = "error", the await raises), or a response with its status, whether
\* the body parses as XML, the Code element of the body, and whether an ETag
\* header is present.
Transport == [net |-> "error", status |-> 0, parse |-> FALSE, code |-> "", etag |-> FALSE]
Ok(etag) == [net |-> "ok", status |-> 200, parse |-> TRUE, code |-> "", etag |-> etag]
Err(status, code) == [net |-> "ok", status |-> status, parse |-> TRUE, code |-> code, etag |-> FALSE]
Malformed(status) == [net |-> "ok", status |-> status, parse |-> FALSE, code |-> "", etag |-> FALSE]
NoResponse == [net |-> "none", status |-> 0, parse |-> FALSE, code |-> "", etag |-> FALSE]

\* The failures any request may meet, whatever the backend holds: the
\* connection fails, the backend refuses the request with an error envelope,
\* or something in between answers with a body that is not XML.
Failures ==
    { Transport,
      Err(403, "AccessDenied"),
      Malformed(500) }

\* Client._check_error: the exception it raises for a response, or
\* NoException when it returns.
_check_error(response) ==
    IF response.status < ErrorStatus THEN NoException
    ELSE IF ~response.parse THEN S3Exception("S3liteError")
    ELSE IF response.code \notin IGNORED_ERRORS THEN S3Exception(response.code)
    ELSE NoException

\* `resp = await client.<verb>(...)` followed by `self._check_error(resp)`.
Await(response) ==
    IF response.net = "error" THEN PyError("TransportError")
    ELSE _check_error(response)

\* ------------------------------------------------------------- state
VARIABLES
    config,       \* ClientConfig: multipart_threshold, max_concurrency
    file,         \* upload_object's file: how it was given, content, position, open/closed
    pc,           \* where the caller's coroutine stands
    session,      \* the SignedClient of the running operation: none / open / closed
    mp,           \* locals of _upload_object_multipart: upload_id, sem, part, total_size
    tasks,        \* the part tasks, by part number: state, content, result
    wire,         \* requests issued: counters per kind, the completion body, the Range header
    backend,      \* bucket owner, stored object, uploaded parts, ETag counter
    result,       \* outcome of the caller's last operation
    check         \* last response checked and the exception it gave

vars == <<config, file, pc, session, mp, tasks, wire, backend, result, check>>

NoObject == <<-1>>
NoHeader == [set |-> FALSE, start |-> 0, stop |-> 0, open |-> FALSE]
NoLink == [method |-> "", disposition |-> ""]
NoResult == [op |-> "none", kind |-> "none", exc |-> NoException, size |-> 0,
             content |-> <<>>, offset |-> 0, limit |-> 0,
             upload |-> "absent", download_filename |-> "absent", link |-> NoLink]

Init ==
    /\ config \in [multipart_threshold : 1..MaxThreshold,
                   max_concurrency : -1..MaxConcurrency]
    /\ \E n \in 0..MaxLen, how \in {"path", "fileobj"} :
         file = [how |-> how, content |-> Stream(n), pos |-> 0,
                 open |-> (how = "fileobj"), close |-> FALSE]
    /\ pc = "idle"
    /\ session = "none"
    /\ mp = [upload_id |-> FALSE, sem |-> 0, part |-> 1, total_size |-> 0,
            failed |-> 0, uploaded |-> FALSE]
    /\ tasks = <<>>
    /\ wire = [initiate |-> 0, put |-> <<>>, complete |-> 0, direct |-> 0,
               closed_put |-> 0, sent |-> <<>>, body |-> <<>>, range |-> NoHeader]
    /\ backend \in [owner : {"nobody", "caller", "other"}, object : {NoObject},
                    parts : {<<>>}, etags : {0}]
    /\ result = NoResult
    /\ check = [response |-> NoResponse, exc |-> NoException]

\* The caller's coroutine leaves the operation with an exception: the
\* `async with SignedClient` block closes the session on the way out.
Raise(op, exc) ==
    /\ pc' = "raised"
    /\ session' = "closed"
    /\ result' = [NoResult EXCEPT !.op = op, !.kind = "raised", !.exc = exc]

Checked(response) == [response |-> response, exc |-> Await(response)]

\* ------------------------------------------------------- create_bucket
create_bucket ==
    /\ pc = "idle"
    /\ pc' = "cb_put"
    /\ session' = "open"
    /\ UNCHANGED <<config, file, mp, tasks, wire, backend, result, check>>

\* The backend's answer to PUT /{bucket}: a new bucket is created for the
\* caller; an existing one is reported by owner.
CreateBucketResponse ==
    CASE backend.owner = "nobody" -> Ok(FALSE)
      [] backend.owner = "caller" -> Err(409, "BucketAlreadyOwnedByYou")
      [] backend.owner = "other" -> Err(409, "BucketAlreadyExists")

create_bucket_response ==
    /\ pc = "cb_put"
    /\ \E response \in Failures \cup {CreateBucketResponse} :
         /\ check' = Checked(response)
         /\ backend' = IF response = Ok(FALSE)
                       THEN [backend EXCEPT !.owner = "caller"]
                       ELSE backend
         /\ IF Await(response) # NoException
            THEN Raise("create_bucket", Await(response))
            ELSE /\ pc' = "idle"
                 /\ session' = "closed"
                 /\ result' = [NoResult EXCEPT !.op = "create_bucket", !.kind = "returned"]
    /\ UNCHANGED <<config, file, mp, tasks, wire>>

\* The backend's answer to a request on an object of a bucket the caller does
\* not own: the bucket is missing, or it is someone else's. In the caller's
\* own bucket the request is served.
ObjectResponse(served) ==
    CASE backend.owner = "nobody" -> Err(404, "NoSuchBucket")
      [] backend.owner = "other" -> Err(403, "AccessDenied")
      [] backend.owner = "caller" -> served

\* ------------------------------------------------------- upload_object
\* Lines 177-197: open the file when a path was given, measure it, and route
\* it; either path runs to its first request.
\* The routing test with >= for >.
UseMultipartAtThreshold(file_size, multipart_threshold) == file_size >= multipart_threshold

\* Line 192: the routing test.
UseMultipart(file_size, multipart_threshold) == file_size > multipart_threshold

\* A read that stops one byte short of n.
ReadShort(content, pos, n) == SubSeq(content, pos + 1, Min(pos + n - 1, Len(content)))

\* file.read(n) at position pos, for n >= 1.
Read(content, pos, n) == Slice(content, pos, pos + n)

upload_object ==
    /\ pc = "idle"
    /\ ~mp.uploaded
    /\ LET opened == [file EXCEPT !.open = TRUE, !.close = (file.how = "path")]
           file_size == Len(file.content)
       IN  IF UseMultipart(file_size, config.multipart_threshold)
           THEN /\ file' = [opened EXCEPT !.pos = 0]
                /\ pc' = "mp_initiate"
                /\ wire' = [wire EXCEPT !.initiate = @ + 1]
           ELSE /\ file' = [opened EXCEPT !.pos = file_size]
                /\ pc' = "sp_put"
                /\ wire' = [wire EXCEPT !.direct = @ + 1,
                                        !.sent = Slice(file.content, 0, file_size)]
    /\ session' = "open"
    /\ mp' = [mp EXCEPT !.uploaded = TRUE]
    /\ UNCHANGED <<config, tasks, backend, result, check>>

Returned(size) ==
    [NoResult EXCEPT !.op = "upload_object", !.kind = "returned", !.size = size]

\* Lines 197-203: the direct PUT is answered.
upload_object_response ==
    /\ pc = "sp_put"
    /\ \E response \in Failures \cup {ObjectResponse(Ok(TRUE))} :
         /\ check' = Checked(response)
         /\ backend' = IF response = Ok(TRUE)
                       THEN [backend EXCEPT !.object = wire.sent]
                       ELSE backend
         /\ IF Await(response) # NoException
            THEN /\ Raise("upload_object", Await(response))
                 /\ file' = file
            ELSE /\ pc' = "idle"
                 /\ session' = "closed"
                 /\ file' = IF file.close THEN [file EXCEPT !.open = FALSE] ELSE file
                 /\ result' = Returned(Len(file.content))
    /\ UNCHANGED <<config, mp, tasks, wire>>

\* --------------------------------------------- _upload_object_multipart
\* asyncio.Semaphore(value) raises ValueError for a negative value.
SemaphoreRejects(value) == value < 0

\* Lines 139-144: the initiate POST is answered; the upload id is read from
\* the body and the gate is built.
initiate_response ==
    /\ pc = "mp_initiate"
    /\ \E response \in Failures \cup {ObjectResponse(Ok(FALSE))} :
         /\ check' = Checked(response)
         /\ IF Await(response) # NoException
            THEN /\ Raise("upload_object", Await(response))
                 /\ mp' = mp
            ELSE IF SemaphoreRejects(config.max_concurrency)
            THEN /\ Raise("upload_object", PyError("ValueError"))
                 /\ mp' = [mp EXCEPT !.upload_id = TRUE]
            ELSE /\ pc' = "mp_read"
                 /\ mp' = [mp EXCEPT !.upload_id = TRUE, !.sem = config.max_concurrency]
                 /\ UNCHANGED <<session, result>>
    /\ UNCHANGED <<config, file, tasks, wire, backend>>

NewTask(content) == [state |-> "created", content |-> content, etag |-> 0, exc |-> NoException]

\* A size count that takes every part for a full one.
AddSizeFullPart(total_size, data) == total_size + config.multipart_threshold

\* Line 162: total_size += len(data)
AddSize(total_size, data) == total_size + Len(data)

\* A task that starts over when its PUT failed.
RetriedTask(task, exc) == [task EXCEPT !.state = "created", !.exc = exc]

\* Lines 150-152: an exception leaves _upload_task; the task is finished and
\* holds the exception for gather.
FailedTask(task, exc) == [task EXCEPT !.state = "failed", !.exc = exc]

\* Lines 161-164: one turn of the read loop; an empty read ends the loop and
\* the caller awaits asyncio.gather (line 166).
read_part ==
    /\ pc = "mp_read"
    /\ LET data == Read(file.content, file.pos, config.multipart_threshold)
       IN  IF Len(data) > 0
           THEN /\ mp' = [mp EXCEPT !.total_size = AddSize(@, data), !.part = @ + 1]
                /\ tasks' = Append(tasks, NewTask(data))
                /\ wire' = [wire EXCEPT !.put = Append(@, 0)]
                /\ file' = [file EXCEPT !.pos = @ + Len(data)]
                /\ pc' = pc
           ELSE /\ pc' = "gather"
                /\ UNCHANGED <<mp, tasks, wire, file>>
    /\ UNCHANGED <<config, session, backend, result, check>>

\* A gate that admits every task.
CanAcquireAlways(sem) == TRUE

\* sem.acquire() returns at once while the semaphore has a free slot.
CanAcquire(sem) == sem > 0

\* Lines 147-150 of _upload_task: the task takes a slot and sends its PUT.
\* The tasks run once the caller's coroutine has suspended; a task that
\* reaches client.put after the caller left the `async with` block finds the
\* client closed, and the call raises.
upload_task_acquire(n) ==
    /\ pc # "mp_read"
    /\ tasks[n].state = "created"
    /\ CanAcquire(mp.sem)
    /\ mp' = [mp EXCEPT !.sem = @ - 1,
                        !.failed = IF session # "open" /\ @ = 0 THEN n ELSE @]
    /\ IF session = "open"
       THEN /\ tasks' = [tasks EXCEPT ![n].state = "inflight"]
            /\ wire' = [wire EXCEPT !.put[n] = @ + 1]
       ELSE /\ tasks' = [tasks EXCEPT ![n] = FailedTask(@, PyError("RuntimeError"))]
            /\ wire' = [wire EXCEPT !.closed_put = @ + 1]
    /\ UNCHANGED <<config, file, pc, session, backend, result, check>>

\* A task that returns without sem.release().
ReleaseForgotten(sem) == sem

\* Line 154: the slot goes back once the response passed the check.
Release(sem) == sem + 1

\* Lines 150-155 of _upload_task: the PUT is answered. The backend keeps the
\* part and names it with a fresh ETag; the task checks the response, reads
\* the ETag header, releases its slot and returns. A 200 that reaches the
\* client without its ETag header makes resp_.headers["ETag"] raise.
upload_task_response(n) ==
    /\ tasks[n].state = "inflight"
    /\ \E response \in Failures \cup {ObjectResponse(Ok(TRUE)), ObjectResponse(Ok(FALSE))} :
         LET exc == IF Await(response) # NoException THEN Await(response)
                    ELSE IF ~response.etag THEN PyError("KeyError")
                    ELSE NoException
             etag == backend.etags + 1
         IN  /\ backend' = IF response.status = 200
                           THEN [backend EXCEPT !.etags = etag,
                                                !.parts = @ @@ (n :> [content |-> tasks[n].content,
                                                                     etag |-> etag])]
                           ELSE backend
             /\ IF exc # NoException
                THEN /\ tasks' = [tasks EXCEPT ![n] = FailedTask(@, exc)]
                     /\ mp' = [mp EXCEPT !.failed = IF @ = 0 THEN n ELSE @]
                ELSE /\ tasks' = [tasks EXCEPT ![n].state = "done", ![n].etag = etag]
                     /\ mp' = [mp EXCEPT !.sem = Release(@)]
    /\ UNCHANGED <<config, file, pc, session, wire, result, check>>

\* `<Part><ETag>{etag}</ETag><PartNumber>{part_number}</PartNumber></Part>`
PartXml(etag, part_number) == [ETag |-> etag, PartNumber |-> part_number]

\* The value a finished task returns (line 155).
TaskResult(n) == <<n, PartXml(tasks[n].etag, n)>>

\* asyncio.gather(*tasks): the results in the order of the tasks.
Gathered == [n \in 1..Len(tasks) |-> TaskResult(n)]

\* The sort with reverse=True.
SortedDescending(pairs) == SortSeq(pairs, LAMBDA a, b : a[1] > b[1])

\* sorted(...) of (part_number, xml) pairs; the part numbers are distinct.
Sorted(pairs) == SortSeq(pairs, LAMBDA a, b : a[1] < b[1])

\* The parts listed as their uploads finished, without the sort.
CompleteBodyAsFinished ==
    LET parts == SortSeq(Gathered, LAMBDA a, b : a[2].ETag < b[2].ETag)
    IN  [i \in 1..Len(parts) |-> parts[i][2]]

\* Lines 166-171: the body of the completion request.
CompleteBody == LET parts == Sorted(Gathered) IN [i \in 1..Len(parts) |-> parts[i][2]]

\* A gather that waits for every task and keeps the exceptions as results.
GatherWithExceptions == \A n \in 1..Len(tasks) : tasks[n].state \in {"done", "failed"}

\* asyncio.gather(*tasks) returns once every task has returned.
GatherReturns == \A n \in 1..Len(tasks) : tasks[n].state = "done"

\* Lines 166-172: every task returned; build the body and send the
\* completion POST.
gather_returns ==
    /\ pc = "gather"
    /\ GatherReturns
    /\ pc' = "mp_complete"
    /\ wire' = [wire EXCEPT !.complete = @ + 1, !.body = CompleteBody]
    /\ UNCHANGED <<config, file, session, mp, tasks, backend, result, check>>

\* Line 166: gather hands the first exception of a task to the caller; the
\* other tasks are left running.
gather_raises ==
    /\ pc = "gather"
    /\ mp.failed # 0
    /\ Raise("upload_object", tasks[mp.failed].exc)
    /\ UNCHANGED <<config, file, mp, tasks, wire, backend, check>>

RECURSIVE Assemble(_, _)
\* The backend's object for a completion body: the listed parts, in the
\* order listed.
Assemble(body, parts) ==
    IF body = <<>> THEN <<>>
    ELSE (IF Head(body).PartNumber \in DOMAIN parts
          THEN parts[Head(body).PartNumber].content
          ELSE <<>>) \o Assemble(Tail(body), parts)

\* Lines 172-175: the completion POST is answered.
complete_response ==
    /\ pc = "mp_complete"
    /\ \E response \in Failures \cup {ObjectResponse(Ok(FALSE))} :
         /\ check' = Checked(response)
         /\ backend' = IF response = Ok(FALSE)
                       THEN [backend EXCEPT !.object = Assemble(wire.body, backend.parts)]
                       ELSE backend
         /\ IF Await(response) # NoException
            THEN Raise("upload_object", Await(response))
            ELSE /\ pc' = "idle"
                 /\ session' = "closed"
                 /\ result' = Returned(mp.total_size)
    /\ UNCHANGED <<config, file, mp, tasks, wire>>

\* ----------------------------------------------------- download_object
\* The Range header built from the arguments as passed, without the clamp.
RangeHeaderUnclamped(offset, limit) ==
    IF offset > 0 \/ limit > 0
    THEN IF limit # 0
         THEN [set |-> TRUE, start |-> offset, stop |-> offset + limit - 1, open |-> FALSE]
         ELSE [set |-> TRUE, start |-> offset, stop |-> 0, open |-> TRUE]
    ELSE NoHeader

\* The Range header with an exclusive end.
RangeHeaderExclusiveEnd(offset, limit) ==
    IF offset > 0 \/ limit > 0
    THEN LET o == Max(offset, 0)
             l == Max(limit, 0)
         IN  IF l # 0
             THEN [set |-> TRUE, start |-> o, stop |-> o + l, open |-> FALSE]
             ELSE [set |-> TRUE, start |-> o, stop |-> 0, open |-> TRUE]
    ELSE NoHeader

\* Lines 112-116: the Range header for (offset, limit), or none.
RangeHeader(offset, limit) ==
    IF offset > 0 \/ limit > 0
    THEN LET o == Max(offset, 0)
             l == Max(limit, 0)
         IN  IF l # 0
             THEN [set |-> TRUE, start |-> o, stop |-> o + l - 1, open |-> FALSE]
             ELSE [set |-> TRUE, start |-> o, stop |-> 0, open |-> TRUE]
    ELSE NoHeader

\* Lines 112-119: build the headers and send the GET.
download_object ==
    /\ pc = "idle"
    /\ \E offset \in -1..MaxOffset, limit \in -1..MaxLimit :
         /\ wire' = [wire EXCEPT !.range = RangeHeader(offset, limit)]
         /\ result' = [NoResult EXCEPT !.op = "download_object", !.kind = "pending",
                                       !.offset = offset, !.limit = limit]
    /\ pc' = "dl_get"
    /\ session' = "open"
    /\ UNCHANGED <<config, file, mp, tasks, backend, check>>

\* The bytes a backend serves for `Range: bytes=start-stop` (stop inclusive)
\* or `bytes=start-`, and the whole object without the header.
Served(object, range) ==
    IF ~range.set THEN object
    ELSE IF range.open THEN SubSeq(object, range.start + 1, Len(object))
    ELSE SubSeq(object, range.start + 1, Min(range.stop + 1, Len(object)))

\* The backend's answer to GET /{bucket}/{key}.
GetResponse ==
    ObjectResponse(
        IF backend.object = NoObject THEN Err(404, "NoSuchKey")
        ELSE IF wire.range.set /\ wire.range.start >= Len(backend.object)
        THEN Err(416, "InvalidRange")
        ELSE Ok(TRUE))

\* Lines 119-124: the GET is answered; with in_memory the content read from
\* the response is returned.
download_response ==
    /\ pc = "dl_get"
    /\ \E response \in Failures \cup {GetResponse} :
         /\ check' = Checked(response)
         /\ IF Await(response) # NoException
            THEN Raise("download_object", Await(response))
            ELSE /\ pc' = "idle"
                 /\ session' = "closed"
                 /\ result' = [result EXCEPT !.kind = "returned",
                                 !.content = Served(backend.object, wire.range)]
    /\ UNCHANGED <<config, file, mp, tasks, wire, backend>>

\* ----------------------------------------------------------------- share
\* AWSSigV4.presign(url, upload, ttl, download_filename): the link signs a PUT
\* when upload is set and a GET otherwise, and carries the
\* response-content-disposition override when a filename is given.
presign(upload, download_filename) ==
    [method |-> IF upload THEN "PUT" ELSE "GET",
     disposition |-> IF download_filename = "absent" THEN ""
                     ELSE "attachment; filename=" \o download_filename]

\* Line 205: share(self, bucket, key, ttl=86400) binds no fourth positional
\* argument and no download_filename keyword; a call that passes one raises
\* TypeError.
ShareBinds(upload, download_filename) ==
    upload = "absent" /\ download_filename = "absent"

\* Lines 205-209: share signs nothing over the network; it returns
\* presign(url, False, ttl).
share ==
    /\ pc = "idle"
    /\ \E upload \in {"absent", "False", "True"}, download_filename \in {"absent", "name"} :
         LET call == [NoResult EXCEPT !.op = "share", !.upload = upload,
                                      !.download_filename = download_filename]
         IN  IF ShareBinds(upload, download_filename)
             THEN /\ pc' = "idle"
                  /\ result' = [call EXCEPT !.kind = "returned",
                                            !.link = presign(FALSE, "absent")]
             ELSE /\ pc' = "raised"
                  /\ result' = [call EXCEPT !.kind = "raised", !.exc = PyError("TypeError")]
    /\ UNCHANGED <<config, file, session, mp, tasks, wire, backend, check>>

Next ==
    \/ share
    \/ create_bucket
    \/ create_bucket_response
    \/ upload_object
    \/ upload_object_response
    \/ initiate_response
    \/ read_part
    \/ \E n \in 1..Len(tasks) : upload_task_acquire(n)
    \/ \E n \in 1..Len(tasks) : upload_task_response(n)
    \/ gather_returns
    \/ gather_raises
    \/ complete_response
    \/ download_object
    \/ download_response

Spec == Init /\ [][Next]_vars

\* The steps of a running upload: a response arriving for a request that is
\* out, and the event loop running a coroutine that is ready.
UploadStep ==
    \/ upload_object_response
    \/ initiate_response
    \/ read_part
    \/ \E n \in 1..Len(tasks) : upload_task_acquire(n)
    \/ \E n \in 1..Len(tasks) : upload_task_response(n)
    \/ gather_returns
    \/ gather_raises
    \/ complete_response

\* The uploads that reach the part tasks: the bucket is the caller's (in any
\* other the initiate POST is refused and the call ends at once) and the
\* stream is handed in as a file object (how the file was given changes
\* nothing but who closes it).
LiveInit ==
    /\ Init
    /\ backend.owner = "caller"
    /\ file.how = "fileobj"

\* Every network call is answered in the end and the event loop runs every
\* ready coroutine in the end.
LiveSpec == LiveInit /\ [][Next]_vars /\ WF_vars(UploadStep)
\* ------------------------------------------------------------- claims
InFlight == {n \in 1..Len(tasks) : tasks[n].state = "inflight"}
\* A task that failed after acquiring never gives its slot back.
Holding == {n \in 1..Len(tasks) : tasks[n].state \in {"inflight", "failed"}}
Done == {n \in 1..Len(tasks) : tasks[n].state = "done"}
Failed == {n \in 1..Len(tasks) : tasks[n].state = "failed"}
\* The read loop has run to its end.
ReadDone == tasks # <<>> /\ pc # "mp_read"
UploadReturned == result.op = "upload_object" /\ result.kind = "returned"
\* Two parts whose uploads finished in the opposite order of their numbers.
OutOfOrder ==
    \E m, n \in Done : m < n /\ tasks[m].etag > tasks[n].etag

\* C1: with max_concurrency >= 1, the part tasks that hold a gate slot, and
\* among them those with a PUT in flight, never number more than
\* max_concurrency.
C1_ConcurrencyBound ==
    config.max_concurrency >= 1 =>
        /\ Cardinality(InFlight) <= config.max_concurrency
        /\ Cardinality(Holding) <= config.max_concurrency

\* The gate is full (two PUTs in flight) and a further task waits for a slot.
C1_Witness ==
    /\ config.max_concurrency = 2
    /\ Cardinality(InFlight) = 2
    /\ \E n \in 1..Len(tasks) : tasks[n].state = "created"

\* C2: once a part upload has failed, the completion POST is never issued
\* and upload_object does not return an Object: the caller is still waiting
\* in gather or has raised.
C2_FailurePropagation ==
    Failed # {} =>
        /\ wire.complete = 0
        /\ ~UploadReturned
        /\ pc \in {"gather", "raised"}
        /\ pc = "raised" => result.op = "upload_object" /\ result.exc # NoException

\* One part failed while another had already been uploaded, and the call
\* has raised.
C2_Witness ==
    /\ Failed # {}
    /\ Done # {}
    /\ pc = "raised"
    /\ result.op = "upload_object"

\* C3: whenever the completion POST has been issued, its body lists one
\* Part per part task, with part numbers 1..N in ascending order, each with
\* the ETag the backend returned for that part number.
C3_CompletionBodySorted ==
    wire.complete > 0 =>
        /\ Len(wire.body) = Len(tasks)
        /\ \A i \in 1..Len(wire.body) :
             /\ wire.body[i].PartNumber = i
             /\ i \in DOMAIN backend.parts
             /\ wire.body[i].ETag = backend.parts[i].etag

\* The completion POST was issued after the parts finished out of order.
C3_Witness == wire.complete > 0 /\ OutOfOrder

CeilDiv(a, b) == (a + b - 1) \div b

\* C4: part n carries the stream bytes [(n-1)*P, min(n*P, L)) and is never
\* empty; when the read loop has ended there are exactly ceil(L/P) parts,
\* numbered 1..ceil(L/P), and the last has L mod P bytes, or P when P
\* divides L.
C4_PartSplitting ==
    LET L == Len(file.content)
        P == config.multipart_threshold
    IN  /\ \A n \in 1..Len(tasks) :
             /\ Len(tasks[n].content) = Min(n * P, L) - (n - 1) * P
             /\ Len(tasks[n].content) >= 1
             /\ \A i \in 1..Len(tasks[n].content) :
                  tasks[n].content[i] = file.content[(n - 1) * P + i]
        /\ mp.part = Len(tasks) + 1
        /\ ReadDone =>
             /\ Len(tasks) = CeilDiv(L, P)
             /\ Len(tasks[Len(tasks)].content) = (IF L % P = 0 THEN P ELSE L % P)

\* The read loop ended on a stream that the part size does not divide: the
\* last part is short.
C4_Witness ==
    /\ ReadDone
    /\ Len(file.content) % config.multipart_threshold # 0
    /\ Len(tasks) >= 2

\* C5: a download without a range that returns, returns exactly the bytes
\* uploaded, whether they went up in one PUT or in parts, in whatever order
\* the parts finished.
C5_RoundTrip ==
    (result.op = "download_object" /\ result.kind = "returned" /\ ~wire.range.set) =>
        /\ result.content = file.content
        /\ wire.direct + wire.complete = 1

\* A download without a range returned after a multipart upload whose parts
\* finished out of order.
C5_Witness ==
    /\ result.op = "download_object"
    /\ result.kind = "returned"
    /\ ~wire.range.set
    /\ wire.complete = 1
    /\ OutOfOrder

C7_CheckErrorIgnoreSet ==
    /\ check.response.net = "ok" =>
         /\ (check.exc = [type |-> "S3Exception", code |-> check.response.code]
                /\ check.response.parse)
              <=> (/\ check.response.status >= 400
                   /\ check.response.parse
                   /\ check.response.code # "BucketAlreadyOwnedByYou")
         /\ check.response.status < 400 => check.exc.type = "None"
    /\ (result.op = "create_bucket" /\ check.response.code = "BucketAlreadyOwnedByYou")
         => result.kind = "returned"
    /\ (result.op = "create_bucket" /\ check.response.code = "BucketAlreadyExists")
         => (result.kind = "raised" /\ result.exc.code = "BucketAlreadyExists")

\* create_bucket returned for a bucket the caller already owned.
C7_Witness ==
    /\ result.op = "create_bucket"
    /\ result.kind = "returned"
    /\ check.response.status = 409
    /\ check.response.code = "BucketAlreadyOwnedByYou"
    /\ backend.owner = "caller"

RECURSIVE Sum(_)
Sum(s) == IF s = <<>> THEN 0 ELSE Head(s) + Sum(Tail(s))

\* C8: an upload of a client configured with max_concurrency <= 0 issues no
\* initiate POST, no part PUT and no completion POST.
C8_RejectedBeforeNetwork ==
    config.max_concurrency <= 0 =>
        /\ wire.initiate = 0
        /\ Sum(wire.put) = 0
        /\ wire.complete = 0

C10_DistinctProtocolError ==
    (check.response.net = "ok" /\ check.response.status >= 400 /\ ~check.response.parse) =>
        check.exc.type \notin {"None", "S3Exception"}

\* C11: share called with the upload flag set returns a link that signs a
\* PUT of the object URL; without the flag the link signs a GET.
C11_ShareUploadSignsPut ==
    result.op = "share" =>
        /\ result.kind = "returned"
        /\ result.link.method = (IF result.upload = "True" THEN "PUT" ELSE "GET")

\* C12: share called with a download filename returns a link that carries
\* the response-content-disposition override for that filename; without a
\* filename the link carries none.
C12_ShareDownloadFilename ==
    (result.op = "share" /\ result.upload = "absent") =>
        /\ result.kind = "returned"
        /\ result.link.disposition =
             (IF result.download_filename = "absent" THEN ""
              ELSE "attachment; filename=" \o result.download_filename)

\* The gate of the upload has been built (line 144).
GateBuilt == mp.upload_id /\ config.max_concurrency >= 0
\* The caller's upload_object call has ended and no later call has begun.
UploadEnded ==
    /\ result.op = "upload_object"
    /\ result.kind \in {"returned", "raised"}
    /\ pc \in {"idle", "raised"}

\* C13: a part task gives its slot back when it completes, on success and
\* on failure alike: whenever no part task is in flight, every slot of the
\* gate is free.
C13_SlotsReturned ==
    (GateBuilt /\ InFlight = {}) => mp.sem = config.max_concurrency

\* C14: a part PUT is issued only after the initiate POST was answered with
\* an upload id; an initiate that failed leaves no part task, no part PUT and
\* no completion; the completion POST is issued at most once, and only when
\* every part PUT of the upload (each issued once) has completed
\* successfully; the call returns an Object exactly when the completion
\* passed the check.
C14_ProtocolOrder ==
    /\ wire.initiate <= 1
    /\ wire.complete <= 1
    /\ ~mp.upload_id => tasks = <<>> /\ Sum(wire.put) = 0 /\ wire.complete = 0
    /\ Sum(wire.put) > 0 => wire.initiate = 1 /\ mp.upload_id
    /\ wire.complete = 1 =>
         /\ tasks # <<>>
         /\ \A n \in 1..Len(tasks) :
              tasks[n].state = "done" /\ wire.put[n] = 1 /\ n \in DOMAIN backend.parts
    /\ (UploadEnded /\ wire.initiate = 1) =>
         (result.kind = "returned" <=> (wire.complete = 1 /\ check.exc = NoException))

\* The completion POST was issued and failed: the call raised.
C14_Witness ==
    /\ wire.complete = 1
    /\ pc = "raised"
    /\ result.op = "upload_object"
    /\ check.exc # NoException

\* C15: in one multipart upload every part number is PUT at most once, also
\* after a part has failed, and besides the part PUTs the upload issues one
\* initiate POST and at most one completion POST: no retry, no other request.
C15_NoRetry ==
    wire.initiate > 0 =>
        /\ wire.initiate = 1
        /\ wire.direct = 0
        /\ wire.complete <= 1
        /\ Len(wire.put) = Len(tasks)
        /\ \A n \in 1..Len(tasks) :
             /\ wire.put[n] <= 1
             /\ tasks[n].state \in {"inflight", "done"} => wire.put[n] = 1
             /\ tasks[n].state = "created" => wire.put[n] = 0

\* A part failed after its one PUT, another part was uploaded, and the call
\* has raised.
C15_Witness ==
    /\ pc = "raised"
    /\ \E n \in Failed : wire.put[n] = 1
    /\ \E n \in Done : wire.put[n] = 1

\* C16: download_object sends a Range header exactly when offset > 0 or
\* limit > 0; the header starts at max(offset, 0), is open-ended when
\* max(limit, 0) is 0 and otherwise ends at start + limit - 1, so it holds no
\* negative number and never ends before it starts.
C16_RangeHeader ==
    (result.op = "download_object" /\ result.kind \in {"pending", "returned"}) =>
        LET o == IF result.offset > 0 THEN result.offset ELSE 0
            l == IF result.limit > 0 THEN result.limit ELSE 0
        IN  /\ wire.range.set <=> (result.offset > 0 \/ result.limit > 0)
            /\ wire.range.set =>
                 /\ wire.range.start = o
                 /\ wire.range.start >= 0
                 /\ wire.range.open <=> (l = 0)
                 /\ ~wire.range.open =>
                      /\ wire.range.stop = o + l - 1
                      /\ wire.range.stop >= wire.range.start

\* A download with a negative offset and a positive limit: the offset is
\* clamped.
C16_Witness ==
    /\ result.op = "download_object"
    /\ result.offset = -1
    /\ result.limit = 1
    /\ wire.range.set

\* C17: the Object a successful upload_object returns has the length of the
\* stream as its size; on the multipart path that is the sum of the sizes
\* of the parts read, no request was issued beyond the initiate, one PUT per
\* part and the completion, and the stored object has that size.
C17_ObjectSize ==
    UploadReturned =>
        /\ result.size = Len(file.content)
        /\ backend.object # NoObject => Len(backend.object) = result.size
        /\ wire.initiate = 1 =>
             /\ result.size = Sum([n \in 1..Len(tasks) |-> Len(tasks[n].content)])
             /\ wire.direct = 0 /\ wire.complete = 1
             /\ \A n \in 1..Len(tasks) : wire.put[n] = 1

\* A multipart upload with a short last part returned its Object.
C17_Witness ==
    /\ UploadReturned
    /\ wire.complete = 1
    /\ Len(file.content) % config.multipart_threshold # 0
    /\ backend.object # NoObject

\* C18: once upload_object has returned or raised, the session is closed, no
\* part task is still waiting or in flight, and no part task has tried a PUT
\* on the closed session.
C18_NoTaskOutlivesCall ==
    UploadEnded =>
        /\ session = "closed"
        /\ \A n \in 1..Len(tasks) : tasks[n].state \in {"done", "failed"}
        /\ wire.closed_put = 0

\* C20: when upload_object has returned or raised, a file it opened from a
\* path is closed, and a file object handed in by the caller is still open.
C20_FileClosed ==
    UploadEnded =>
        IF file.how = "path" THEN ~file.open ELSE file.open

\* C19: with max_concurrency >= 1, answered network calls and a fair event
\* loop, a multipart upload that has begun ends: the call returns or raises.
C19_Termination ==
    (config.max_concurrency >= 1 /\ pc \in {"mp_initiate", "mp_read", "gather", "mp_complete"})
        ~> (pc \in {"idle", "raised"})

\* The call has raised while the only slot of the gate is lost to the failed
\* part and a further part task waits for it.
C19_Witness ==
    /\ config.max_concurrency = 1
    /\ pc = "raised"
    /\ result.op = "upload_object"
    /\ mp.sem = 0
    /\ Failed # {}
    /\ \E n \in 1..Len(tasks) : tasks[n].state = "created"
====
